---- MODULE Spec2Model ----
(***************************************************************************)
(* Model of minishellai.py: the command-line assistant that sends a query, *)
(* optionally enriched with captured terminal output, together with the    *)
(* stored conversation history to an AI backend and persists the exchange. *)
(*                                                                         *)
(* Python values are represented as follows.                               *)
(*   str          a sequence of one-character strings                      *)
(*   None         the value NONE (no str equals it)                        *)
(*   list         a sequence                                               *)
(*   dict         a function from key strings to values (a record)         *)
(*   a file       <<>> when the path does not exist, <<content>> otherwise *)
(***************************************************************************)
EXTENDS Integers, Sequences, FiniteSets, TLC

\* ------------------------------------------------------------------------
\* Bounds of the model
\* ------------------------------------------------------------------------

\* Largest history.max_size a configuration sets explicitly.
MaxSizeBound == 2

\* Number of invocations of the program in one behaviour.
MaxInvocations == 2

\* Number of exchanges (user message and assistant reply) of the longest
\* history file present before the first invocation.
MaxStored == 2

\* Number of commands a recording session captures.
MaxCaptured == 1

\* Number of query invocations in a behaviour of queries only.
MaxQueries == 3

\* ------------------------------------------------------------------------
\* Program constants
\* ------------------------------------------------------------------------

\* config.get('max_size', 100)
DefaultMaxSize == 100

NONE == <<"<None>">>

\* The operating-system processes that run the program.
Procs == {1, 2}

\* ------------------------------------------------------------------------
\* str
\* ------------------------------------------------------------------------

Whitespace == {" ", "\n", "\t"}

RECURSIVE LStrip(_)
LStrip(s) ==
    IF s # <<>> /\ Head(s) \in Whitespace THEN LStrip(Tail(s)) ELSE s

RECURSIVE RStrip(_)
RStrip(s) ==
    IF s # <<>> /\ s[Len(s)] \in Whitespace
    THEN RStrip(SubSeq(s, 1, Len(s) - 1))
    ELSE s

\* str.strip()
Strip(s) == RStrip(LStrip(s))

\* ''.join(args)
RECURSIVE StrJoin(_)
StrJoin(strs) ==
    IF strs = <<>> THEN <<>> ELSE Head(strs) \o StrJoin(Tail(strs))

\* c in s, for a one-character c
StrContains(s, c) == \E i \in 1..Len(s) : s[i] = c

\* s.replace(c, "") for a one-character c
RECURSIVE StrRemove(_, _)
StrRemove(s, c) ==
    IF s = <<>> THEN <<>>
    ELSE IF Head(s) = c THEN StrRemove(Tail(s), c)
    ELSE <<Head(s)>> \o StrRemove(Tail(s), c)

StartsWith(s, prefix) ==
    /\ Len(prefix) <= Len(s)
    /\ SubSeq(s, 1, Len(prefix)) = prefix

\* s.split(sep)[-1] for a non-empty sep: str.split scans left to right and
\* cuts at every non-overlapping occurrence of sep; seg is the segment
\* collected since the last cut.
RECURSIVE SplitLastFrom(_, _, _)
SplitLastFrom(s, sep, seg) ==
    IF s = <<>> THEN seg
    ELSE IF StartsWith(s, sep)
    THEN SplitLastFrom(SubSeq(s, Len(sep) + 1, Len(s)), sep, <<>>)
    ELSE SplitLastFrom(Tail(s), sep, Append(seg, Head(s)))

\* Mutant of SplitLast: s.split(sep)[0], the first segment.
RECURSIVE SplitFirst(_, _)
SplitFirst(s, sep) ==
    IF s = <<>> \/ StartsWith(s, sep) THEN <<>>
    ELSE <<Head(s)>> \o SplitFirst(Tail(s), sep)

SplitLast(s, sep) == SplitLastFrom(s, sep, <<>>)

\* ------------------------------------------------------------------------
\* dict and list
\* ------------------------------------------------------------------------

EmptyDict == [k \in {} |-> TRUE]

\* d.get(key, default)
Get(d, key, default) ==
    IF \E k \in DOMAIN d : k = key THEN d[key] ELSE default

Min(a, b) == IF a <= b THEN a ELSE b

Max(a, b) == IF a >= b THEN a ELSE b

\* Mutant of SliceTo: the whole list.
SliceAll(lst, n) == lst

\* Mutant of SliceTo: lst[-n:], the last n entries.
SliceLast(lst, n) ==
    IF n <= 0 THEN <<>>
    ELSE SubSeq(lst, Max(Len(lst) - n, 0) + 1, Len(lst))

\* lst[:n]
SliceTo(lst, n) ==
    IF n < 0
    THEN SubSeq(lst, 1, Max(Len(lst) + n, 0))
    ELSE SubSeq(lst, 1, Min(n, Len(lst)))

\* {"role": role, "content": content}
Message(role, content) == [role |-> role, content |-> content]

\* ------------------------------------------------------------------------
\* json: a JSON text is a sequence of tokens
\* ------------------------------------------------------------------------

LBRACKET == [t |-> "["]

RBRACKET == [t |-> "]"]

COMMA == [t |-> ","]

\* The text of one JSON object, holding the dict d.
OBJECT(d) == [t |-> "object", v |-> d]

RECURSIVE DumpItems(_)
DumpItems(lst) ==
    IF lst = <<>> THEN <<>>
    ELSE IF Len(lst) = 1 THEN <<OBJECT(lst[1])>>
    ELSE <<OBJECT(lst[1]), COMMA>> \o DumpItems(Tail(lst))

\* json.dump(lst, f) for a list of dicts: the text written to f.
json_dump(lst) == <<LBRACKET>> \o DumpItems(lst) \o <<RBRACKET>>

\* The tokens between the brackets are objects separated by commas.
ItemsWellFormed(ts) ==
    \/ ts = <<>>
    \/ /\ Len(ts) % 2 = 1
       /\ \A i \in 1..Len(ts) :
            IF i % 2 = 1 THEN ts[i].t = "object" ELSE ts[i] = COMMA

ParseItems(ts) == [i \in 1..((Len(ts) + 1) \div 2) |-> ts[2 * i - 1].v]

\* json.load(f): the parsed value with its Python type, or JSONDecodeError.
json_load(text) ==
    IF Len(text) = 1 /\ text[1].t = "object"
    THEN [error |-> "", type |-> "dict", value |-> text[1].v]
    ELSE IF /\ Len(text) >= 2
            /\ text[1] = LBRACKET
            /\ text[Len(text)] = RBRACKET
            /\ ItemsWellFormed(SubSeq(text, 2, Len(text) - 1))
    THEN [error |-> "", type |-> "list",
          value |-> ParseItems(SubSeq(text, 2, Len(text) - 1))]
    ELSE [error |-> "JSONDecodeError", type |-> "", value |-> <<>>]

\* ------------------------------------------------------------------------
\* Files
\* ------------------------------------------------------------------------

NoFile == <<>>

File(content) == <<content>>

DefaultHistoryPath == "/tmp/minishellai_history.json"

DefaultCapturedPath == "/tmp/minishellai_output.txt"

DefaultSeparator == <<"$">>

\* The file system seen through a path: only the two default paths can hold
\* a file.
FileAt(path, hist, cap) ==
    IF path = DefaultHistoryPath THEN hist
    ELSE IF path = DefaultCapturedPath THEN cap
    ELSE NoFile

\* os.path.exists(path)
PathExists(path, hist, cap) == FileAt(path, hist, cap) # NoFile

\* ------------------------------------------------------------------------
\* The functions of the program
\* ------------------------------------------------------------------------

\* read_yaml_config(config_file): the file's mapping, {} when it is missing.
read_yaml_config(file) ==
    IF file = NoFile THEN EmptyDict ELSE file[1]

\* Mutant of read_history: what the file holds is not taken over.
read_history_forgets(config, hist, cap) ==
    [raised |-> "", value |-> <<>>, log |-> <<>>]

\* read_history(config): the returned list, or the exception that escapes,
\* and what was logged.
read_history(config, hist, cap) ==
    LET filepath == Get(config, "filepath", DefaultHistoryPath)
        max_size == Get(config, "max_size", DefaultMaxSize)
        loaded   == json_load(FileAt(filepath, hist, cap)[1])
    IN  IF ~Get(config, "enabled", FALSE)
        THEN [raised |-> "", value |-> <<>>, log |-> <<>>]
        ELSE IF filepath = "" \/ ~PathExists(filepath, hist, cap)
        THEN [raised |-> "", value |-> <<>>,
              log |-> <<"WARNING history file does not exist">>]
        ELSE IF loaded.error = "JSONDecodeError"
        THEN [raised |-> "", value |-> <<>>,
              log |-> <<"ERROR failed to read history file">>]
        ELSE IF loaded.type # "list"
        THEN [raised |-> "TypeError", value |-> <<>>, log |-> <<>>]
        ELSE [raised |-> "", value |-> SliceTo(loaded.value, max_size),
              log |-> <<"INFO taking last maximum of entries">>]

\* Mutant of write_history: the list is written without the response.
write_history_without_response(config, history, response, hist, can_open) ==
    LET filepath == Get(config, "filepath", DefaultHistoryPath)
    IN  IF ~Get(config, "enabled", FALSE)
        THEN [raised |-> "", file |-> hist]
        ELSE IF filepath = DefaultHistoryPath /\ can_open
        THEN [raised |-> "", file |-> File(json_dump(history))]
        ELSE [raised |-> "OSError", file |-> hist]

\* Mutant of write_history: the check of `enabled` is missing.
write_history_always(config, history, response, hist, can_open) ==
    LET filepath == Get(config, "filepath", DefaultHistoryPath)
        appended == Append(history, Message("assistant", response))
    IN  IF filepath = DefaultHistoryPath /\ can_open
        THEN [raised |-> "", file |-> File(json_dump(appended))]
        ELSE [raised |-> "OSError", file |-> hist]

\* write_history(config, history, response), with open(filepath, 'w')
\* succeeding (can_open) or not: the history file afterwards and the
\* exception that escapes.
write_history(config, history, response, hist, can_open) ==
    LET filepath == Get(config, "filepath", DefaultHistoryPath)
        appended == Append(history, Message("assistant", response))
    IN  IF ~Get(config, "enabled", FALSE)
        THEN [raised |-> "", file |-> hist]
        ELSE IF filepath = DefaultHistoryPath /\ can_open
        THEN [raised |-> "", file |-> File(json_dump(appended))]
        ELSE [raised |-> "OSError", file |-> hist]

\* Mutant of get_payload: the new user message is left out.
get_payload_without_query(query, history) ==
    [msg |-> history, metadata |-> EmptyDict]

\* get_payload(query, history)
get_payload(query, history) ==
    [msg |-> history \o <<Message("user", query)>>, metadata |-> EmptyDict]

CONTEXT_DATA == <<"C", "o", "n", "t", "e", "x", "t", " ", "d", "a", "t", "a", ":", " ">>

QUESTION == <<"\n", "Q", "u", "e", "s", "t", "i", "o", "n", ":", " ">>

\* Mutant of handle_caret: a missing captured-output file is read as an
\* empty one instead of ending the process.
handle_caret_without_exit(query, config, hist, cap) ==
    LET output_capture_settings == Get(config, "output_capture_settings", EmptyDict)
        captured_output_file ==
            Get(output_capture_settings, "captured_output_file", DefaultCapturedPath)
        prompt_separator ==
            Get(output_capture_settings, "prompt_separator", DefaultSeparator)
        text == IF PathExists(captured_output_file, hist, cap)
                THEN FileAt(captured_output_file, hist, cap)[1] ELSE <<>>
        output == Strip(SplitLast(text, prompt_separator))
    IN  IF ~StrContains(query, "^")
        THEN [exit |-> FALSE, value |-> query, file_access |-> FALSE]
        ELSE [exit |-> FALSE,
              value |-> CONTEXT_DATA \o output \o QUESTION \o StrRemove(query, "^"),
              file_access |-> TRUE]

\* Mutant of handle_caret: the captured-output file is looked for before
\* the query is searched for ^.
handle_caret_file_first(query, config, hist, cap) ==
    LET output_capture_settings == Get(config, "output_capture_settings", EmptyDict)
        captured_output_file ==
            Get(output_capture_settings, "captured_output_file", DefaultCapturedPath)
        prompt_separator ==
            Get(output_capture_settings, "prompt_separator", DefaultSeparator)
        output ==
            Strip(SplitLast(FileAt(captured_output_file, hist, cap)[1], prompt_separator))
    IN  IF ~PathExists(captured_output_file, hist, cap)
        THEN [exit |-> TRUE, value |-> query, file_access |-> TRUE]
        ELSE IF ~StrContains(query, "^")
        THEN [exit |-> FALSE, value |-> query, file_access |-> TRUE]
        ELSE [exit |-> FALSE,
              value |-> CONTEXT_DATA \o output \o QUESTION \o StrRemove(query, "^"),
              file_access |-> TRUE]

\* handle_caret(query, config): the rewritten query, or exit(1).
handle_caret(query, config, hist, cap) ==
    LET output_capture_settings == Get(config, "output_capture_settings", EmptyDict)
        captured_output_file ==
            Get(output_capture_settings, "captured_output_file", DefaultCapturedPath)
        prompt_separator ==
            Get(output_capture_settings, "prompt_separator", DefaultSeparator)
        output ==
            Strip(SplitLast(FileAt(captured_output_file, hist, cap)[1], prompt_separator))
    IN  IF ~StrContains(query, "^")
        THEN [exit |-> FALSE, value |-> query, file_access |-> FALSE]
        ELSE IF ~PathExists(captured_output_file, hist, cap)
        THEN [exit |-> TRUE, value |-> query, file_access |-> TRUE]
        ELSE [exit |-> FALSE,
              value |-> CONTEXT_DATA \o output \o QUESTION \o StrRemove(query, "^"),
              file_access |-> TRUE]

\* ------------------------------------------------------------------------
\* Inputs
\* ------------------------------------------------------------------------

RECORD == <<"r", "e", "c", "o", "r", "d">>

\* sys.argv[1:]
ArgLists ==
    { <<>>,
      <<RECORD>>,
      <<RECORD, <<"h">>>>,
      <<<<"h">>, <<"i">>>>,
      <<<<"l">>, <<"^">>>>,
      <<<<>>>> }

\* Standard input: nothing to read, or the piped text.
Stdins == {NoFile, File(<<" ", "\n">>), File(<<" ", "w", "\n">>)}

\* What requests.post, raise_for_status and response.json produce: a
\* RequestException (connection error, timeout, status that is not 2xx), or
\* the parsed body.
RequestExceptions == {"ConnectionError", "Timeout", "HTTPError"}

Completions == {[data |-> <<"o", "k">>], EmptyDict}

\* The text the k-th command of a recording session adds to the
\* captured-output file: the prompt, the command and its output.
CapturedChunk(k) ==
    <<"$", " ", "c", ToString(k), "\n", "o", ToString(k), "\n">>

\* The "history" section of the configuration.
HistoryConfs ==
    {EmptyDict, [enabled |-> FALSE], [enabled |-> TRUE]}
    \cup {[enabled |-> TRUE, max_size |-> m] : m \in 0..MaxSizeBound}

\* The "output_capture_settings" section of the configuration.
CaptureConfs == {EmptyDict, [enforce_script_session |-> TRUE]}

\* The configuration file named by SHELLAI_CONFIG: missing, or with every
\* history section, and with an enforced session for history disabled and
\* enabled.
ConfigFiles ==
    {NoFile}
    \cup {File([history |-> h, output_capture_settings |-> EmptyDict]) :
            h \in HistoryConfs}
    \cup {File([history |-> h, output_capture_settings |-> o]) :
            h \in {EmptyDict, [enabled |-> TRUE]}, o \in CaptureConfs}

\* A stored conversation of n entries: user and assistant in turn, each
\* entry with a content of its own.
StoredList(n) ==
    [i \in 1..n |->
        IF i % 2 = 1 THEN Message("user", <<"u", ToString(i)>>)
                     ELSE Message("assistant", <<"a", ToString(i)>>)]

\* The history file before the first invocation: missing, empty, cut short
\* in the middle of a write, a JSON object, or a stored conversation.
HistoryFiles ==
    {NoFile, File(<<>>), File(<<LBRACKET, OBJECT(Message("user", <<"u">>)), COMMA>>),
     File(<<OBJECT(Message("user", <<"u">>))>>)}
    \cup {File(json_dump(StoredList(2 * n))) : n \in 0..MaxStored}

\* ------------------------------------------------------------------------
\* State
\* ------------------------------------------------------------------------

VARIABLES
    configFile,   \* the configuration file
    histFile,     \* the file at DefaultHistoryPath
    capFile,      \* the file at DefaultCapturedPath
    proc,         \* per process: position, locals, outputs of its invocation
    invocations   \* number of invocations started

vars == <<configFile, histFile, capFile, proc, invocations>>

\* A process that runs no invocation.
IdleProc ==
    [pc            |-> "idle",
     args          |-> <<>>,
     query         |-> NONE,   \* query of __main__
     hq_query      |-> NONE,   \* query of handle_query
     config        |-> EmptyDict,
     history       |-> <<>>,
     payload       |-> EmptyDict,
     response_data |-> NONE,
     stdout        |-> <<>>,
     stderr        |-> <<>>,
     exit_code     |-> -1,
     trace         |-> <<>>,
     hist_before   |-> NoFile]

Init ==
    /\ configFile \in ConfigFiles
    /\ histFile \in HistoryFiles
    /\ capFile = NoFile
    /\ proc = [p \in Procs |-> IdleProc]
    /\ invocations = 0

\* exit(code), after writing the messages to standard error.
Exited(r, code, messages, steps) ==
    [r EXCEPT !.pc = "exited", !.exit_code = code,
              !.stderr = @ \o messages, !.trace = @ \o steps]

\* An exception nothing catches: the traceback, and exit status 1.
Uncaught(r, exception, steps) ==
    Exited(r, 1, <<exception>>, steps)

\* read_stdin()
read_stdin(stdin) == IF stdin = NoFile THEN NONE ELSE Strip(stdin[1])

\* ------------------------------------------------------------------------
\* __main__
\* ------------------------------------------------------------------------

\* The user runs one command after the other: no invocation is between its
\* start and its end, though recording sessions may be open (their process
\* waits in os.system while the user works in the session).
NoCommandRuns == \A q \in Procs : proc[q].pc \in {"idle", "exited", "session"}

\* A recording session is open.
SessionOpen == \E q \in Procs : proc[q].pc = "session"

\* Mutant of IsRecord: record mode only when 'record' is the sole argument.
IsRecordAlone(args) == args = <<RECORD>>

\* args and args[0] == 'record'
IsRecord(args) == args # <<>> /\ args[1] = RECORD

\* The processes when the user's next command starts: the outputs of the
\* finished ones are gone.
Reaped == [q \in Procs |-> IF proc[q].pc = "exited" THEN IdleProc ELSE proc[q]]

\* Lines 158-167: the arguments, the sample of standard input, the first
\* usage check. The invocation takes the first process that is free; the
\* outputs of a finished process are dropped when the next invocation starts.
\* The user starts no recording session inside a recording session.
MainStart(p) ==
    /\ proc[p].pc \in {"idle", "exited"}
    /\ NoCommandRuns
    /\ \A q \in Procs : q < p => proc[q].pc = "session"
    /\ invocations < MaxInvocations
    /\ \E args \in ArgLists, stdin \in Stdins :
        /\ SessionOpen => ~IsRecord(args)
        /\ LET input_data == read_stdin(stdin)
               query == IF input_data # NONE /\ input_data # <<>>
                        THEN Strip(input_data) ELSE NONE
               r == [IdleProc EXCEPT !.args = args, !.query = query,
                                     !.hist_before = histFile,
                                     !.trace = <<"start">>]
               mine == IF args = <<>> /\ query = NONE
                       THEN Exited(r, 1, <<"Usage">>, <<>>)
                       ELSE [r EXCEPT !.pc = "config"]
           IN  proc' = [Reaped EXCEPT ![p] = mine]
    /\ invocations' = invocations + 1
    /\ UNCHANGED <<configFile, histFile, capFile>>

\* Lines 169-180: the configuration and the guard of an enforced session.
MainConfig(p) ==
    /\ proc[p].pc = "config"
    /\ LET r == proc[p]
           config == read_yaml_config(configFile)
           messages ==
               IF configFile = NoFile
               THEN <<"Config file does not exist", "WARNING config file not found">>
               ELSE IF config = EmptyDict
               THEN <<"INFO reading config file", "WARNING config file not found">>
               ELSE <<"INFO reading config file">>
           output_capture_settings == Get(config, "output_capture_settings", EmptyDict)
           enforce_script_session ==
               Get(output_capture_settings, "enforce_script_session", FALSE)
           captured_output_file ==
               Get(output_capture_settings, "captured_output_file", DefaultCapturedPath)
           r1 == [r EXCEPT !.config = config]
       IN  proc' = [proc EXCEPT ![p] =
              IF /\ enforce_script_session
                 /\ r.args # <<>>
                 /\ r.args[1] # RECORD
                 /\ ~PathExists(captured_output_file, histFile, capFile)
              THEN Exited(r1, 1, messages \o <<"Please call record first">>,
                          <<"read_config">>)
              ELSE [r1 EXCEPT !.pc = "dispatch", !.stderr = @ \o messages,
                              !.trace = Append(@, "read_config")]]
    /\ UNCHANGED <<configFile, histFile, capFile, invocations>>

\* Mutant of MainDispatch: the usage check of lines 191-193 is missing.
MainDispatchWithoutUsage(p) ==
    /\ proc[p].pc = "dispatch"
    /\ LET r == proc[p]
           arg_query == StrJoin(r.args)
           query == IF arg_query # <<>>
                    THEN IF r.query # NONE
                         THEN r.query \o <<"\n">> \o arg_query
                         ELSE arg_query
                    ELSE r.query
       IN  IF IsRecord(r.args)
           THEN /\ proc' = [proc EXCEPT ![p] =
                       [r EXCEPT !.pc = "session", !.trace = Append(@, "record")]]
                /\ capFile' = File(<<>>)
           ELSE /\ proc' = [proc EXCEPT ![p] =
                       [r EXCEPT !.pc = "handle_query", !.query = query,
                                 !.hq_query = query]]
                /\ UNCHANGED capFile
    /\ UNCHANGED <<configFile, histFile, invocations>>

\* Lines 182-193: record mode starts the recording session (script creates
\* the file it records to); query mode joins standard input and arguments.
MainDispatch(p) ==
    /\ proc[p].pc = "dispatch"
    /\ LET r == proc[p]
           arg_query == StrJoin(r.args)
           query == IF arg_query # <<>>
                    THEN IF r.query # NONE
                         THEN r.query \o <<"\n">> \o arg_query
                         ELSE arg_query
                    ELSE r.query
       IN  IF IsRecord(r.args)
           THEN /\ proc' = [proc EXCEPT ![p] =
                       [r EXCEPT !.pc = "session", !.trace = Append(@, "record")]]
                /\ capFile' = File(<<>>)
           ELSE /\ proc' = [proc EXCEPT ![p] =
                       IF arg_query = <<>> /\ r.query = NONE
                       THEN Exited(r, 1, <<"Usage">>, <<>>)
                       ELSE [r EXCEPT !.pc = "handle_query", !.query = query,
                                      !.hq_query = query]]
                /\ UNCHANGED capFile
    /\ UNCHANGED <<configFile, histFile, invocations>>

\* ------------------------------------------------------------------------
\* start_script_session
\* ------------------------------------------------------------------------

\* Number of commands the session of process p has captured.
Captured(p) == Len(SelectSeq(proc[p].trace, LAMBDA e : e = "captured"))

\* While os.system runs script, the user's commands and their output are
\* written through to the captured-output file (script -f), as long as the
\* path still names the file; a command runs when no other one does.
SessionOutput(p) ==
    /\ proc[p].pc = "session"
    /\ NoCommandRuns
    /\ capFile # NoFile
    /\ Captured(p) < MaxCaptured
    /\ capFile' = File(capFile[1] \o CapturedChunk(Captured(p) + 1))
    /\ proc' = [Reaped EXCEPT ![p].trace = Append(@, "captured")]
    /\ UNCHANGED <<configFile, histFile, invocations>>

\* Mutant of SessionEnd: the file stays where it is when the session ends.
SessionEndKeepsFile(p) ==
    /\ proc[p].pc = "session"
    /\ NoCommandRuns
    /\ proc' = [Reaped EXCEPT ![p] = Exited(proc[p], 0, <<>>, <<"session_end">>)]
    /\ UNCHANGED <<configFile, histFile, capFile, invocations>>

\* Lines 101-104: the user has ended the session; the captured output is
\* removed.
SessionEnd(p) ==
    /\ proc[p].pc = "session"
    /\ NoCommandRuns
    /\ capFile' = NoFile
    /\ proc' = [Reaped EXCEPT ![p] =
          Exited(proc[p], 0,
                 IF capFile # NoFile THEN <<"INFO removing captured output">> ELSE <<>>,
                 <<"session_end">>)]
    /\ UNCHANGED <<configFile, histFile, invocations>>

\* ------------------------------------------------------------------------
\* handle_query
\* ------------------------------------------------------------------------

\* Lines 129-135: handle_caret, the log of the resolved query, the endpoint.
HandleCaret(p) ==
    /\ proc[p].pc = "handle_query"
    /\ LET r == proc[p]
           resolved == handle_caret(r.hq_query, r.config, histFile, capFile)
           accessed == IF resolved.file_access
                       THEN <<"handle_caret", "captured_output_file">>
                       ELSE <<"handle_caret">>
       IN  proc' = [proc EXCEPT ![p] =
              IF resolved.exit
              THEN Exited(r, 1, <<"ERROR output file does not exist">>, accessed)
              ELSE [r EXCEPT !.pc = "read_history", !.hq_query = resolved.value,
                             !.stderr = Append(@, "INFO query"),
                             !.trace = @ \o accessed]]
    /\ UNCHANGED <<configFile, histFile, capFile, invocations>>

\* Lines 138-139: read_history.
ReadHistory(p) ==
    /\ proc[p].pc = "read_history"
    /\ LET r == proc[p]
           history_conf == Get(r.config, "history", EmptyDict)
           read == read_history(history_conf, histFile, capFile)
       IN  proc' = [proc EXCEPT ![p] =
              IF read.raised # ""
              THEN Uncaught(r, read.raised, <<"read_history">>)
              ELSE [r EXCEPT !.pc = "post", !.history = read.value,
                             !.stderr = @ \o read.log,
                             !.trace = Append(@, "read_history")]]
    /\ UNCHANGED <<configFile, histFile, capFile, invocations>>

\* Mutant of Post: the exit(1) of the exception handler is missing, so the
\* invocation goes on without a response.
PostWithoutExit(p) ==
    /\ proc[p].pc = "post"
    /\ LET r == proc[p]
           payload == get_payload(r.hq_query, r.history)
           sent == [r EXCEPT !.payload = payload,
                             !.stderr = Append(@, "INFO waiting for response")]
       IN  \/ \E e \in RequestExceptions :
                proc' = [proc EXCEPT ![p] =
                    [sent EXCEPT !.pc = "write_history",
                                 !.stderr = Append(@, "ERROR failed to get response"),
                                 !.trace = Append(@, "post")]]
           \/ \E completion \in Completions :
                proc' = [proc EXCEPT ![p] =
                    [sent EXCEPT !.pc = "write_history",
                                 !.response_data = Get(completion, "data", NONE),
                                 !.trace = @ \o <<"post", "response">>]]
    /\ UNCHANGED <<configFile, histFile, capFile, invocations>>

\* Lines 140-150 and 153-155: the payload, the POST and its outcome.
Post(p) ==
    /\ proc[p].pc = "post"
    /\ LET r == proc[p]
           payload == get_payload(r.hq_query, r.history)
           sent == [r EXCEPT !.payload = payload,
                             !.stderr = Append(@, "INFO waiting for response")]
       IN  \/ \E e \in RequestExceptions :
                proc' = [proc EXCEPT ![p] =
                    Exited(sent, 1, <<"ERROR failed to get response">>, <<"post">>)]
           \/ \E completion \in Completions :
                proc' = [proc EXCEPT ![p] =
                    [sent EXCEPT !.pc = "write_history",
                                 !.response_data = Get(completion, "data", NONE),
                                 !.trace = @ \o <<"post", "response">>]]
    /\ UNCHANGED <<configFile, histFile, capFile, invocations>>

\* Mutant of WriteHistory: the history is saved again after the first save.
WriteHistoryTwice(p) ==
    /\ proc[p].pc = "write_history"
    /\ \E can_open \in BOOLEAN :
        LET r == proc[p]
            history_conf == Get(r.config, "history", EmptyDict)
            written == write_history(history_conf, Get(r.payload, "msg", <<>>),
                                     r.response_data, histFile, can_open)
        IN  /\ histFile' = written.file
            /\ proc' = [proc EXCEPT ![p] =
                  IF written.raised # ""
                  THEN Uncaught(r, written.raised, <<"write_history">>)
                  ELSE [r EXCEPT !.pc = IF \E i \in 1..Len(r.trace) : r.trace[i] = "write_history"
                                        THEN "print" ELSE "write_history",
                                 !.trace = Append(@, "write_history")]]
    /\ UNCHANGED <<configFile, capFile, invocations>>

\* Line 151: write_history; open(filepath, 'w') may fail.
WriteHistory(p) ==
    /\ proc[p].pc = "write_history"
    /\ \E can_open \in BOOLEAN :
        LET r == proc[p]
            history_conf == Get(r.config, "history", EmptyDict)
            written == write_history(history_conf, Get(r.payload, "msg", <<>>),
                                     r.response_data, histFile, can_open)
        IN  /\ histFile' = written.file
            /\ proc' = [proc EXCEPT ![p] =
                  IF written.raised # ""
                  THEN Uncaught(r, written.raised, <<"write_history">>)
                  ELSE [r EXCEPT !.pc = "print",
                                 !.trace = Append(@, "write_history")]]
    /\ UNCHANGED <<configFile, capFile, invocations>>

\* Line 152: the response is printed; the program ends with status 0.
PrintResponse(p) ==
    /\ proc[p].pc = "print"
    /\ proc' = [proc EXCEPT ![p] =
          [Exited(proc[p], 0, <<>>, <<"print">>) EXCEPT
              !.stdout = Append(@, proc[p].response_data)]]
    /\ UNCHANGED <<configFile, histFile, capFile, invocations>>

Next ==
    \E p \in Procs :
        \/ MainStart(p)
        \/ MainConfig(p)
        \/ MainDispatch(p)
        \/ SessionOutput(p)
        \/ SessionEnd(p)
        \/ HandleCaret(p)
        \/ ReadHistory(p)
        \/ Post(p)
        \/ WriteHistory(p)
        \/ PrintResponse(p)

Spec == Init /\ [][Next]_vars

\* The behaviours that start without a history file.
InitFresh == Init /\ histFile = NoFile

SpecFresh == InitFresh /\ [][Next]_vars

\* A captured-output file that was at the path before any invocation, such
\* as the one a killed recording session leaves behind.
StaleCapture == <<"$", " ", "s", "\n", "z", "\n">>

\* The behaviours that start with a captured-output file in place and
\* without a history file.
InitStale ==
    /\ configFile \in ConfigFiles
    /\ histFile = NoFile
    /\ capFile = File(StaleCapture)
    /\ proc = [p \in Procs |-> IdleProc]
    /\ invocations = 0

SpecStale == InitStale /\ [][Next]_vars

\* ------------------------------------------------------------------------
\* Two invocations at the same time
\* ------------------------------------------------------------------------

\* The arguments of the query process p runs: a question of its own.
RaceArgs(p) == <<<<"q">>, <<ToString(p)>>>>

\* The configurations with the history enabled.
RaceConfigFiles ==
    {File([history |-> h, output_capture_settings |-> EmptyDict]) :
        h \in {c \in HistoryConfs : Get(c, "enabled", FALSE)}}

InitRace ==
    /\ configFile \in RaceConfigFiles
    /\ histFile \in HistoryFiles
    /\ capFile = NoFile
    /\ proc = [p \in Procs |-> IdleProc]
    /\ invocations = 0

\* Lines 158-167 for a process of its own, started at any time: from two
\* terminals, or in the background.
RaceStart(p) ==
    /\ proc[p].pc = "idle"
    /\ invocations < MaxInvocations
    /\ \E stdin \in Stdins :
        LET args == RaceArgs(p)
            input_data == read_stdin(stdin)
            query == IF input_data # NONE /\ input_data # <<>>
                     THEN Strip(input_data) ELSE NONE
            r == [IdleProc EXCEPT !.args = args, !.query = query,
                                  !.hist_before = histFile,
                                  !.trace = <<"start">>]
        IN  proc' = [proc EXCEPT ![p] =
               IF args = <<>> /\ query = NONE
               THEN Exited(r, 1, <<"Usage">>, <<>>)
               ELSE [r EXCEPT !.pc = "config"]]
    /\ invocations' = invocations + 1
    /\ UNCHANGED <<configFile, histFile, capFile>>

NextRace ==
    \E p \in Procs :
        \/ RaceStart(p)
        \/ MainConfig(p)
        \/ MainDispatch(p)
        \/ HandleCaret(p)
        \/ ReadHistory(p)
        \/ Post(p)
        \/ WriteHistory(p)
        \/ PrintResponse(p)

SpecRace == InitRace /\ [][NextRace]_vars

\* ------------------------------------------------------------------------
\* Queries one after the other
\* ------------------------------------------------------------------------

\* The arguments of the k-th query: a question of its own.
QueryArgs(k) == <<<<"q">>, <<ToString(k)>>>>

\* History enabled, any history file.
InitQueries ==
    /\ configFile \in RaceConfigFiles
    /\ histFile \in HistoryFiles
    /\ capFile = NoFile
    /\ proc = [p \in Procs |-> IdleProc]
    /\ invocations = 0

\* History enabled; the history file is missing, empty, or an empty list.
InitFreshQueries ==
    /\ InitQueries
    /\ histFile \in {NoFile, File(<<>>), File(json_dump(<<>>))}

\* Lines 158-167 of the next query, started when the one before has ended.
QueryStart(p) ==
    /\ proc[p].pc \in {"idle", "exited"}
    /\ NoCommandRuns
    /\ \A q \in Procs : q < p => proc[q].pc = "session"
    /\ invocations < MaxQueries
    /\ \E stdin \in Stdins :
        LET args == QueryArgs(invocations + 1)
            input_data == read_stdin(stdin)
            query == IF input_data # NONE /\ input_data # <<>>
                     THEN Strip(input_data) ELSE NONE
            r == [IdleProc EXCEPT !.args = args, !.query = query,
                                  !.hist_before = histFile,
                                  !.trace = <<"start">>]
        IN  proc' = [Reaped EXCEPT ![p] =
               IF args = <<>> /\ query = NONE
               THEN Exited(r, 1, <<"Usage">>, <<>>)
               ELSE [r EXCEPT !.pc = "config"]]
    /\ invocations' = invocations + 1
    /\ UNCHANGED <<configFile, histFile, capFile>>

NextQueries ==
    \E p \in Procs :
        \/ QueryStart(p)
        \/ MainConfig(p)
        \/ MainDispatch(p)
        \/ HandleCaret(p)
        \/ ReadHistory(p)
        \/ Post(p)
        \/ WriteHistory(p)
        \/ PrintResponse(p)

SpecQueries == InitQueries /\ [][NextQueries]_vars

SpecFreshQueries == InitFreshQueries /\ [][NextQueries]_vars

\* ------------------------------------------------------------------------
\* handle_caret on its own
\* ------------------------------------------------------------------------

\* The queries handle_query passes to handle_caret.
CaretQueries ==
    { <<"^">>, <<"a", "^">>, <<"^", "a", " ", "^">>, <<"a", " ", "^", " ", "b">>,
      <<"a", " ", "b">>, <<"$">>, <<>> }

\* The captured-output file: missing, or the text of a recording session.
CaretCapFiles ==
    { NoFile,
      File(<<>>),
      File(<<"o", "u", "t">>),
      File(<<"$", " ", "l", "\n", "f", "\n", "$", " ", "p", "\n", "/", "h", "\n">>),
      File(<<"$", " ", "l", "\n", "f", "$">>),
      File(<<"x", "$", " ", "\t", "\n">>),
      File(<<"$", " ", "e", " ", "^", "\n", "^", " ", "\n">>),
      File(<<"a", "$", "$", "$", "b", " ", "$", " ", "c">>) }

\* The configurations with each prompt_separator.
CaretConfigFiles ==
    { File([history |-> EmptyDict, output_capture_settings |-> o]) :
        o \in { EmptyDict,
                [prompt_separator |-> <<"$", " ">>],
                [prompt_separator |-> <<"$", "$">>],
                [prompt_separator |-> <<"\n">>] } }

\* handle_query is entered (line 128) with each query, configuration and
\* captured-output file.
InitCaret ==
    /\ configFile \in CaretConfigFiles
    /\ histFile = NoFile
    /\ capFile \in CaretCapFiles
    /\ \E query \in CaretQueries :
         proc = [p \in Procs |->
                   IF p = 1
                   THEN [IdleProc EXCEPT !.pc = "handle_query",
                                         !.args = <<query>>,
                                         !.query = query,
                                         !.hq_query = query,
                                         !.config = read_yaml_config(configFile),
                                         !.trace = <<"start", "read_config">>]
                   ELSE IdleProc]
    /\ invocations = 1

NextCaret == \E p \in Procs : HandleCaret(p)

SpecCaret == InitCaret /\ [][NextCaret]_vars

\* ------------------------------------------------------------------------
\* Vocabulary of the properties
\* ------------------------------------------------------------------------

\* The configuration every invocation of the behaviour reads.
TheConfig == read_yaml_config(configFile)

HistoryConf == Get(TheConfig, "history", EmptyDict)

HistoryEnabled == Get(HistoryConf, "enabled", FALSE)

ConfiguredMaxSize == Get(HistoryConf, "max_size", DefaultMaxSize)

EnforceScriptSession ==
    Get(Get(TheConfig, "output_capture_settings", EmptyDict),
        "enforce_script_session", FALSE)

\* Process p has taken the step named e in its current invocation.
Did(p, e) == \E i \in 1..Len(proc[p].trace) : proc[p].trace[i] = e

Count(p, e) == Len(SelectSeq(proc[p].trace, LAMBDA x : x = e))

Logged(p, message) == \E i \in 1..Len(proc[p].stderr) : proc[p].stderr[i] = message

Terminated(p) == proc[p].pc = "exited"

\* The roles of msgs are user, assistant, user, ... in turn.
RolesAlternate(msgs) ==
    \A i \in 1..Len(msgs) :
        msgs[i].role = IF i % 2 = 1 THEN "user" ELSE "assistant"

\* The file holds a JSON array of {role, content} objects.
IsMessageArray(file) ==
    /\ file # NoFile
    /\ json_load(file[1]).error = ""
    /\ json_load(file[1]).type = "list"
    /\ \A i \in 1..Len(json_load(file[1]).value) :
         DOMAIN json_load(file[1]).value[i] = {"role", "content"}

\* The list a file that holds a JSON array stores.
StoredIn(file) == json_load(file[1]).value

FirstEntries(lst, n) == [i \in 1..n |-> lst[i]]

LastEntries(lst, n) == [i \in 1..n |-> lst[Len(lst) - n + i]]

\* ------------------------------------------------------------------------
\* Properties
\* ------------------------------------------------------------------------

\* C1: in every payload handle_query builds, in behaviours that start without
\* a history file, the roles of msg alternate user, assistant, user, ...
\* starting with user, so that msg ends with the new user message.
C1_PayloadRolesAlternate ==
    \A p \in Procs :
        Did(p, "post") =>
            /\ RolesAlternate(proc[p].payload.msg)
            /\ proc[p].payload.msg[Len(proc[p].payload.msg)]
                 = Message("user", proc[p].hq_query)

\* C2: whenever the backend has answered, the invocation prints the response
\* data and ends normally, whether or not the history could be written: a
\* failed write is logged, not raised.
C2_ResponsePrintedDespiteWriteFailure ==
    \A p \in Procs :
        (Terminated(p) /\ Did(p, "response")) =>
            /\ proc[p].stdout = <<proc[p].response_data>>
            /\ proc[p].exit_code = 0
            /\ ~Logged(p, "OSError")

\* C3: a query-mode invocation (arguments, standard input or both) under
\* enforce_script_session without a captured-output file prints the hint to
\* run record first and exits with status 1, and makes no backend call.
C3_EnforcedSessionRefusesEveryQuery ==
    \A p \in Procs :
        ( /\ Did(p, "read_config")
          /\ ~IsRecord(proc[p].args)
          /\ EnforceScriptSession
          /\ capFile = NoFile ) =>
            /\ Terminated(p)
            /\ proc[p].exit_code = 1
            /\ Logged(p, "Please call record first")
            /\ ~Did(p, "post")

\* C4: read_history returns the empty list, raising nothing, when the
\* history file is missing and when its content is not a JSON array of
\* {role, content} objects; the invocation goes on to the backend call.
C4_UnreadableHistoryIsEmpty ==
    \A p \in Procs :
        ( /\ Did(p, "read_history")
          /\ HistoryEnabled
          /\ ~IsMessageArray(proc[p].hist_before) ) =>
            /\ proc[p].history = <<>>
            /\ ~Logged(p, "TypeError")
            /\ proc[p].pc \in {"post", "write_history", "print", "exited"}
            /\ Terminated(p) => Did(p, "post")

\* C5: the history read is bounded by max_size, and when the stored list is
\* longer, the entries dropped are the oldest: the most recently stored
\* max_size entries are the ones kept.
C5_TrimDropsOldest ==
    \A p \in Procs :
        ( /\ proc[p].pc = "post"
          /\ HistoryEnabled
          /\ IsMessageArray(proc[p].hist_before) ) =>
            /\ Len(proc[p].history) <= ConfiguredMaxSize
            /\ Len(StoredIn(proc[p].hist_before)) > ConfiguredMaxSize =>
                 proc[p].history =
                     LastEntries(StoredIn(proc[p].hist_before), ConfiguredMaxSize)

\* The first max_size entries of lst, or all of lst when it has no more.
Truncated(lst, max_size) ==
    IF Len(lst) > max_size THEN FirstEntries(lst, max_size) ELSE lst

\* C6: for a history file that holds a list of more than max_size entries,
\* read_history returns exactly its first max_size entries in stored order;
\* for a list of at most max_size entries it returns the whole list.
C6_ReadKeepsFirstEntries ==
    \A p \in Procs :
        ( /\ proc[p].pc = "post"
          /\ HistoryEnabled
          /\ IsMessageArray(proc[p].hist_before) ) =>
            proc[p].history =
                IF Len(StoredIn(proc[p].hist_before)) > ConfiguredMaxSize
                THEN FirstEntries(StoredIn(proc[p].hist_before), ConfiguredMaxSize)
                ELSE StoredIn(proc[p].hist_before)

\* read_history has cut a stored list, and its first entries are not its
\* last ones.
C6_Witness ==
    \E p \in Procs :
        /\ proc[p].pc = "post"
        /\ HistoryEnabled
        /\ IsMessageArray(proc[p].hist_before)
        /\ ConfiguredMaxSize >= 1
        /\ Len(StoredIn(proc[p].hist_before)) > ConfiguredMaxSize
        /\ proc[p].history
             # LastEntries(StoredIn(proc[p].hist_before), ConfiguredMaxSize)

\* C7: with history enabled, once write_history(cfg, h, r) has written the
\* file, read_history(cfg) returns h followed by the entry
\* {role: assistant, content: r}, cut to its first max_size entries.
C7_WriteThenReadRoundTrip ==
    \A p \in Procs :
        (proc[p].pc = "print" /\ HistoryEnabled) =>
            /\ read_history(HistoryConf, histFile, capFile).raised = ""
            /\ read_history(HistoryConf, histFile, capFile).value =
                 Truncated(Append(proc[p].payload.msg,
                                  Message("assistant", proc[p].response_data)),
                           ConfiguredMaxSize)

\* write_history has written a list that read_history cuts.
C7_Witness ==
    \E p \in Procs :
        /\ proc[p].pc = "print"
        /\ HistoryEnabled
        /\ ConfiguredMaxSize >= 1
        /\ Len(proc[p].payload.msg) + 1 > ConfiguredMaxSize
        /\ proc[p].response_data # NONE

\* C8: when `enabled` is false or absent, read_history returns the empty
\* list whatever the history file contains, and write_history neither
\* creates nor writes the file.
C8_DisabledHistoryUntouched ==
    \A p \in Procs :
        ~HistoryEnabled =>
            /\ Did(p, "read_history") =>
                 (proc[p].history = <<>> /\ ~Logged(p, "TypeError"))
            /\ Did(p, "write_history") =>
                 (histFile = proc[p].hist_before /\ ~Logged(p, "OSError"))

\* History is disabled, the file holds a stored conversation, and both
\* read_history and write_history have run.
C8_Witness ==
    \E p \in Procs :
        /\ ~HistoryEnabled
        /\ Did(p, "read_history")
        /\ Did(p, "write_history")
        /\ IsMessageArray(proc[p].hist_before)
        /\ StoredIn(proc[p].hist_before) # <<>>
        /\ proc[p].response_data # NONE

\* C9: when the backend call fails, the invocation logs the error and exits
\* with status 1; it has printed nothing, has left the history file as it
\* was when the invocation started, and has sent the request once.
C9_BackendFailureLeavesNoTrace ==
    \A p \in Procs :
        (Did(p, "post") /\ ~Did(p, "response")) =>
            /\ Terminated(p)
            /\ proc[p].exit_code = 1
            /\ proc[p].stdout = <<>>
            /\ histFile = proc[p].hist_before
            /\ Logged(p, "ERROR failed to get response")
            /\ Count(p, "post") = 1
            /\ ~Did(p, "write_history")

\* The backend call of an invocation with a stored history has failed.
C9_Witness ==
    \E p \in Procs :
        /\ Did(p, "post")
        /\ ~Did(p, "response")
        /\ HistoryEnabled
        /\ proc[p].history # <<>>

\* C10: for a query that contains ^ when the captured-output file does not
\* exist, handle_caret ends the process with status 1 before the history is
\* read: no backend call is made and the history file is unchanged.
C10_CaretWithoutCaptureExits ==
    \A p \in Procs :
        ( /\ Did(p, "handle_caret")
          /\ StrContains(proc[p].query, "^")
          /\ capFile = NoFile ) =>
            /\ Terminated(p)
            /\ proc[p].exit_code = 1
            /\ Logged(p, "ERROR output file does not exist")
            /\ ~Did(p, "read_history")
            /\ ~Did(p, "post")
            /\ histFile = proc[p].hist_before

\* handle_caret has met ^ without a captured-output file, with history
\* enabled and a stored conversation.
C10_Witness ==
    \E p \in Procs :
        /\ Did(p, "handle_caret")
        /\ StrContains(proc[p].query, "^")
        /\ capFile = NoFile
        /\ HistoryEnabled
        /\ IsMessageArray(histFile)

\* The configured prompt separator.
PromptSeparator ==
    Get(Get(TheConfig, "output_capture_settings", EmptyDict),
        "prompt_separator", DefaultSeparator)

\* sep occurs in s at index i.
OccursAt(s, sep, i) ==
    /\ i \in 1..(Len(s) - Len(sep) + 1)
    /\ \A j \in 1..Len(sep) : s[i + j - 1] = sep[j]

\* The last of the segments that the occurrences of sep cut s into, the
\* occurrences taken from the left.
RECURSIVE LastSegment(_, _)
LastSegment(s, sep) ==
    IF \E i \in 1..Len(s) : OccursAt(s, sep, i)
    THEN LET first == CHOOSE i \in 1..Len(s) :
                        /\ OccursAt(s, sep, i)
                        /\ \A k \in 1..(i - 1) : ~OccursAt(s, sep, k)
         IN  LastSegment([j \in 1..(Len(s) - first - Len(sep) + 1) |->
                             s[first + Len(sep) - 1 + j]], sep)
    ELSE s

\* s from its first to its last character that is not whitespace.
Trimmed(s) ==
    LET inked == {i \in 1..Len(s) : s[i] \notin Whitespace}
    IN  IF inked = {} THEN <<>>
        ELSE LET a == CHOOSE i \in inked : \A k \in inked : i <= k
                 b == CHOOSE i \in inked : \A k \in inked : i >= k
             IN  [j \in 1..(b - a + 1) |-> s[a + j - 1]]

\* The query with every ^ taken out.
WithoutCarets(query) == SelectSeq(query, LAMBDA c : c # "^")

\* C11: for a query with at least one ^ and an existing captured-output
\* file, handle_caret returns "Context data: " + S + "\nQuestion: " + Q, S
\* being the whitespace-trimmed last segment of the file's text split on the
\* prompt separator and Q the query without any ^; S holds no separator, so
\* nothing from before the final separator is in the result.
C11_CaretInjectsLastSegment ==
    \A p \in Procs :
        ( /\ Did(p, "handle_caret")
          /\ StrContains(proc[p].query, "^")
          /\ capFile # NoFile ) =>
            LET S == Trimmed(LastSegment(capFile[1], PromptSeparator))
                Q == WithoutCarets(proc[p].query)
            IN  /\ ~Logged(p, "ERROR output file does not exist")
                /\ proc[p].hq_query = CONTEXT_DATA \o S \o QUESTION \o Q
                /\ \A i \in 1..Len(S) : ~OccursAt(S, PromptSeparator, i)
                /\ SubSeq(proc[p].hq_query, 1 + Len(CONTEXT_DATA),
                          Len(proc[p].hq_query) - Len(QUESTION) - Len(Q)) = S

\* handle_caret has rewritten a query with two ^ from a file that the
\* separator cuts more than once, whose last segment needed trimming.
C11_Witness ==
    \E p \in Procs :
        /\ Did(p, "handle_caret")
        /\ Len(proc[p].query) - Len(WithoutCarets(proc[p].query)) = 2
        /\ capFile # NoFile
        /\ Cardinality({i \in 1..Len(capFile[1]) :
                           OccursAt(capFile[1], PromptSeparator, i)}) >= 2
        /\ LastSegment(capFile[1], PromptSeparator) # <<>>
        /\ Trimmed(LastSegment(capFile[1], PromptSeparator))
             # LastSegment(capFile[1], PromptSeparator)
        /\ Trimmed(LastSegment(capFile[1], PromptSeparator)) # <<>>

\* C12: for a query without ^, handle_caret returns the query unchanged and
\* does not touch the captured-output file, so it succeeds whether or not
\* that file exists.
C12_NoCaretNoFileAccess ==
    \A p \in Procs :
        (Did(p, "handle_caret") /\ ~StrContains(proc[p].query, "^")) =>
            /\ proc[p].hq_query = proc[p].query
            /\ ~Did(p, "captured_output_file")
            /\ ~Logged(p, "ERROR output file does not exist")
            /\ Logged(p, "INFO query")

\* handle_caret has returned a query without ^ while there is no
\* captured-output file.
C12_Witness ==
    \E p \in Procs :
        /\ Did(p, "handle_caret")
        /\ ~StrContains(proc[p].query, "^")
        /\ proc[p].query # <<>>
        /\ capFile = NoFile

\* C13: a query-mode invocation with history enabled and no history file,
\* answered by the backend with data d, prints d and leaves a history file
\* of exactly two entries, {user, the resolved query} and {assistant, d}
\* (the file being one that can be written).
C13_FirstExchangeStored ==
    \A p \in Procs :
        ( /\ Terminated(p)
          /\ Did(p, "response")
          /\ HistoryEnabled
          /\ proc[p].hist_before = NoFile
          /\ ~Logged(p, "OSError") ) =>
            /\ proc[p].stdout = <<proc[p].response_data>>
            /\ proc[p].exit_code = 0
            /\ IsMessageArray(histFile)
            /\ StoredIn(histFile) =
                 <<Message("user", proc[p].hq_query),
                   Message("assistant", proc[p].response_data)>>

\* The first exchange, of a query that handle_caret rewrote, is stored.
C13_Witness ==
    \E p \in Procs :
        /\ Terminated(p)
        /\ Did(p, "print")
        /\ HistoryEnabled
        /\ proc[p].hist_before = NoFile
        /\ proc[p].response_data # NONE
        /\ proc[p].hq_query # proc[p].query

\* The first argument of the invocation of p is the literal "record".
FirstArgumentIsRecord(p) ==
    Len(proc[p].args) >= 1 /\ Head(proc[p].args) = RECORD

\* C14: whenever the first argument is "record", the invocation runs the
\* recording session and ignores the query text of the other arguments and
\* of standard input: handle_query is never entered, no backend call is
\* made, the history file is neither read nor written.
C14_RecordModeIgnoresQuery ==
    \A p \in Procs :
        FirstArgumentIsRecord(p) =>
            /\ proc[p].pc \in {"config", "dispatch", "session", "exited"}
            /\ ~Did(p, "handle_caret")
            /\ ~Did(p, "read_history")
            /\ ~Did(p, "post")
            /\ ~Did(p, "write_history")
            /\ proc[p].hq_query = NONE
            /\ proc[p].payload = EmptyDict
            /\ proc[p].stdout = <<>>
            /\ Terminated(p) =>
                 /\ Did(p, "record")
                 /\ Did(p, "session_end")
                 /\ proc[p].exit_code = 0

\* A recording session given a further argument and text on standard
\* input has ended.
C14_Witness ==
    \E p \in Procs :
        /\ FirstArgumentIsRecord(p)
        /\ Len(proc[p].args) > 1
        /\ proc[p].query # NONE
        /\ Terminated(p)

\* C15: once start_script_session has returned, the captured-output file
\* does not exist, whether or not it existed when the function was called;
\* so outside a recording session the only file a query can find at the
\* path is one no recording left there, and a query with a caret that runs
\* when no such file is there ends with the error of the missing file, a
\* query under an enforced session with the hint to record first.
C15_SessionEndRemovesCapture ==
    /\ \A p \in Procs :
          (Terminated(p) /\ Did(p, "session_end")) => capFile = NoFile
    /\ ~SessionOpen => capFile \in {NoFile, File(StaleCapture)}
    /\ \A q \in Procs :
          /\ ( /\ Did(q, "handle_caret")
               /\ StrContains(proc[q].query, "^")
               /\ ~SessionOpen
               /\ capFile # File(StaleCapture) ) =>
                   /\ Logged(q, "ERROR output file does not exist")
                   /\ proc[q].exit_code = 1
          /\ ( /\ Did(q, "read_config")
               /\ EnforceScriptSession
               /\ proc[q].args # <<>>
               /\ ~FirstArgumentIsRecord(q)
               /\ ~SessionOpen
               /\ capFile # File(StaleCapture) ) =>
                   /\ Logged(q, "Please call record first")
                   /\ proc[q].exit_code = 1

\* The first invocation was a recording session that started with the file
\* in place, captured a command and has ended.
C15_Witness ==
    \E p \in Procs :
        /\ invocations = 1
        /\ Terminated(p)
        /\ Did(p, "captured")
        /\ Did(p, "session_end")
        /\ Logged(p, "INFO removing captured output")

\* The invocation of p has no query text: its arguments concatenate to the
\* empty string and standard input supplied no text.
NoQueryText(p) ==
    /\ Did(p, "start")
    /\ StrJoin(proc[p].args) = <<>>
    /\ proc[p].query = NONE

\* C16, as stated: an invocation without arguments and without text on
\* standard input prints the usage and ends with status 1 before the
\* configuration is read, with no backend call and no change to the history
\* file or the captured-output file; and the same holds when the arguments
\* concatenate to the empty string.
C16_UsageBeforeConfig ==
    \A p \in Procs :
        (NoQueryText(p) /\ Terminated(p)) =>
            /\ Logged(p, "Usage")
            /\ proc[p].exit_code = 1
            /\ proc[p].trace = <<"start">>
            /\ histFile = proc[p].hist_before

\* C16, amended: without arguments and without text on standard input the
\* usage is printed and the invocation ends with status 1 before the
\* configuration is read. With arguments that concatenate to the empty
\* string the configuration is read first; the invocation then ends with
\* status 1 on the hint to record first when a session is enforced and no
\* captured-output file exists, and on the usage otherwise. In every case
\* there is no backend call and no change to either file.
C16_EmptyQueryExits ==
    \A p \in Procs :
        NoQueryText(p) =>
            /\ proc[p].pc \in {"config", "dispatch", "exited"}
            /\ ~Did(p, "post")
            /\ ~Did(p, "record")
            /\ ~Did(p, "write_history")
            /\ histFile = proc[p].hist_before
            /\ Terminated(p) =>
                 /\ proc[p].exit_code = 1
                 /\ proc[p].stdout = <<>>
                 /\ IF proc[p].args = <<>>
                    THEN /\ proc[p].trace = <<"start">>
                         /\ proc[p].stderr = <<"Usage">>
                    ELSE /\ proc[p].trace = <<"start", "read_config">>
                         /\ IF EnforceScriptSession /\ capFile = NoFile
                            THEN /\ Logged(p, "Please call record first")
                                 /\ ~Logged(p, "Usage")
                            ELSE /\ Logged(p, "Usage")
                                 /\ ~Logged(p, "Please call record first")

\* An invocation with one empty argument has read the configuration and
\* ended on the usage.
C16_Witness ==
    \E p \in Procs :
        /\ NoQueryText(p)
        /\ proc[p].args # <<>>
        /\ Terminated(p)
        /\ Did(p, "read_config")
        /\ Logged(p, "Usage")

\* The invocation of p has printed its response after saving the history.
Succeeded(p) ==
    /\ Terminated(p)
    /\ Did(p, "write_history")
    /\ Did(p, "print")
    /\ proc[p].exit_code = 0

\* The two entries the invocation of p adds to the history.
Exchange(p) ==
    <<Message("user", proc[p].hq_query), Message("assistant", proc[p].response_data)>>

\* The list lst holds the exchange of p.
HoldsExchange(lst, p) ==
    \E i \in 1..(Len(lst) - 1) : <<lst[i], lst[i + 1]>> = Exchange(p)

\* What the invocation of p wrote to the history file.
WrittenBy(p) ==
    File(json_dump(Append(proc[p].payload.msg,
                          Message("assistant", proc[p].response_data))))

\* The invocation of q started when the one of p had saved the history.
StartedAfterSave(p, q) ==
    /\ Did(p, "write_history")
    /\ proc[q].hist_before = WrittenBy(p)

\* Both invocations succeeded and the history file, though it holds fewer
\* than max_size entries, lacks the exchange of one of them.
LostUpdate ==
    \E p \in Procs : \E q \in Procs \ {p} :
        /\ Succeeded(p)
        /\ Succeeded(q)
        /\ HistoryEnabled
        /\ IsMessageArray(histFile)
        /\ Len(StoredIn(histFile)) < ConfiguredMaxSize
        /\ HoldsExchange(StoredIn(histFile), q)
        /\ ~HoldsExchange(StoredIn(histFile), p)

\* C17: two query invocations that overlap can both succeed and leave the
\* exchange of only one of them in the history file (LostUpdate, reached in
\* C17_Witness); when the second one starts after the first has saved, and
\* the file it finds holds no more than max_size entries, the file ends
\* with what the second found followed by its exchange, so with both
\* exchanges.
C17_SequentialKeepsBothExchanges ==
    \A p \in Procs : \A q \in Procs \ {p} :
        ( /\ Succeeded(p)
          /\ Succeeded(q)
          /\ HistoryEnabled
          /\ StartedAfterSave(p, q)
          /\ Len(StoredIn(proc[q].hist_before)) <= ConfiguredMaxSize ) =>
              /\ IsMessageArray(histFile)
              /\ StoredIn(histFile) = StoredIn(proc[q].hist_before) \o Exchange(q)
              /\ HoldsExchange(StoredIn(histFile), p)
              /\ HoldsExchange(StoredIn(histFile), q)
              /\ ~LostUpdate

\* The lost update: both invocations read the history before either saved.
C17_Witness ==
    /\ LostUpdate
    /\ \A p \in Procs : proc[p].hist_before = File(json_dump(<<>>))

\* The steps of handle_query in the order of its code; "response" is the
\* return of the POST with a status that raise_for_status accepts.
QuerySteps ==
    <<"handle_caret", "read_history", "post", "response", "write_history", "print">>

\* The steps of handle_query the invocation of p has taken, in their order.
StepsOf(p) ==
    SelectSeq(proc[p].trace, LAMBDA e : \E i \in 1..Len(QuerySteps) : QuerySteps[i] = e)

IsPrefix(s, t) == Len(s) <= Len(t) /\ \A i \in 1..Len(s) : s[i] = t[i]

\* C18: a query invocation takes the steps context injection, history
\* load, POST, history save, print in this order, each at most once; it
\* changes the history file at most once, in the save that follows a
\* successful response, and the file is as it was at the start until then.
C18_QueryStepsInOrder ==
    \A p \in Procs :
        /\ IsPrefix(StepsOf(p), QuerySteps)
        /\ Count(p, "post") <= 1
        /\ Count(p, "write_history") <= 1
        /\ Did(p, "write_history") => Did(p, "response")
        /\ Did(p, "print") => Did(p, "write_history")
        /\ (Did(p, "handle_caret") /\ ~Did(p, "write_history")) =>
               histFile = proc[p].hist_before
        /\ (Did(p, "handle_caret") /\ histFile # proc[p].hist_before) =>
               /\ Did(p, "response")
               /\ histFile = WrittenBy(p)

\* A query invocation has taken all the steps and changed the history file.
C18_Witness ==
    \E p \in Procs :
        /\ Terminated(p)
        /\ StepsOf(p) = QuerySteps
        /\ histFile # proc[p].hist_before
        /\ proc[p].stdout # <<>>

\* Number of entries the history file holds: those of its list, none when
\* the file is missing or holds no list.
EntriesOf(file) ==
    IF IsMessageArray(file) THEN Len(StoredIn(file)) ELSE 0

\* C19: with the history enabled and a history file that is missing or
\* empty at first, the file holds at most max_size + 2 entries after any
\* number of query invocations that run one after the other, whether they
\* succeed or fail.
C19_HistoryFileBounded ==
    HistoryEnabled =>
        /\ EntriesOf(histFile) <= ConfiguredMaxSize + 2
        /\ \/ IsMessageArray(histFile)
           \/ histFile \in {NoFile, File(<<>>)}

\* The third query in a row has saved a file of max_size + 2 entries, with
\* a max_size that cuts the list it read.
C19_Witness ==
    \E p \in Procs :
        /\ invocations = MaxQueries
        /\ Succeeded(p)
        /\ HistoryEnabled
        /\ ConfiguredMaxSize >= 1
        /\ EntriesOf(proc[p].hist_before) > ConfiguredMaxSize
        /\ EntriesOf(histFile) = ConfiguredMaxSize + 2

\* The history file held at least max_size entries when the invocation of
\* p started.
FilledBefore(p) ==
    /\ Did(p, "start")
    /\ IsMessageArray(proc[p].hist_before)
    /\ Len(StoredIn(proc[p].hist_before)) >= ConfiguredMaxSize

\* The first max_size entries of the file the invocation of p started on.
KeptEntries(p) == FirstEntries(StoredIn(proc[p].hist_before), ConfiguredMaxSize)

\* C20: with the history enabled, an invocation that starts on a history
\* file of at least max_size entries leaves the first max_size entries of
\* the file as they are, and its payload is those entries followed by the
\* new user message and nothing else; so what the file holds beyond its first
\* max_size entries, such as an exchange saved after the file filled up,
\* is not sent with a later invocation.
C20_FirstEntriesFrozen ==
    \A p \in Procs :
        (HistoryEnabled /\ FilledBefore(p)) =>
            /\ IsMessageArray(histFile)
            /\ Len(StoredIn(histFile)) >= ConfiguredMaxSize
            /\ FirstEntries(StoredIn(histFile), ConfiguredMaxSize) = KeptEntries(p)
            /\ Did(p, "post") =>
                 /\ proc[p].payload.msg =
                        KeptEntries(p) \o <<Message("user", proc[p].hq_query)>>
                 /\ Len(proc[p].payload.msg) = ConfiguredMaxSize + 1
            /\ (Did(p, "write_history") /\ ~Logged(p, "OSError")) =>
                 StoredIn(histFile) = KeptEntries(p) \o Exchange(p)

\* The third query in a row started on a file that holds, beyond its first
\* max_size entries, the exchange of the query before, and has saved.
C20_Witness ==
    \E p \in Procs :
        /\ invocations = MaxQueries
        /\ HistoryEnabled
        /\ FilledBefore(p)
        /\ ConfiguredMaxSize >= 1
        /\ Len(StoredIn(proc[p].hist_before)) = ConfiguredMaxSize + 2
        /\ StoredIn(proc[p].hist_before)[ConfiguredMaxSize + 1].content[1] = "q"
        /\ Succeeded(p)
        /\ histFile # proc[p].hist_before

====
